---- MODULE Spec2Model ----
(***************************************************************************)
(* Resume fraud scoring engine (fraud_checker.py) and the upload route     *)
(* that calls it (main.py, extractor.py).                                  *)
(*                                                                         *)
(* A Python str is a sequence of one-character strings.  An Optional value *)
(* (None, or a regex match / an int) is a sequence of length 0 or 1.       *)
(***************************************************************************)
EXTENDS Integers, Sequences, FiniteSets, TLC

VARIABLES
  text, filename, current_year,  \* the arguments of a check_fraud call
  report,                        \* the report check_fraud returned
  pc,                            \* "start", "done"; "serving" in the upload route
  db,                            \* the resume_results table: a sequence of rows
  request,                       \* the last request to /upload-resume
  response,                      \* the response to it
  fraud_calls,                   \* number of check_fraud invocations by the route
  uploads,                       \* number of requests served
  returned                       \* number of requests that returned a report

vars == <<text, filename, current_year, report, pc,
          db, request, response, fraud_calls, uploads, returned>>

fraud_vars == <<text, filename, current_year, report, pc>>
upload_vars == <<db, request, response, fraud_calls, uploads, returned>>

-----------------------------------------------------------------------------
(* Characters and character classes of the re module                       *)

UpperSeq ==
  <<"A","B","C","D","E","F","G","H","I","J","K","L","M",
    "N","O","P","Q","R","S","T","U","V","W","X","Y","Z">>

LowerSeq ==
  <<"a","b","c","d","e","f","g","h","i","j","k","l","m",
    "n","o","p","q","r","s","t","u","v","w","x","y","z">>

DigitSeq == <<"0","1","2","3","4","5","6","7","8","9">>

UpperSet == {UpperSeq[i] : i \in 1..26}
LowerSet == {LowerSeq[i] : i \in 1..26}
DigitSet == {DigitSeq[i] : i \in 1..10}
AlphaSet == UpperSet \cup LowerSet

\* \s of re for str patterns, and the characters str.strip()/str.split() drop
SpaceSet == {" ", "\t", "\n", "\r", "\f"}

\* \w : [A-Za-z0-9_]
WordSet == AlphaSet \cup DigitSet \cup {"_"}

\* [A-Za-z0-9_-] : the handle class of GITHUB_PATTERN and LINKEDIN_PATTERN
HandleSet == AlphaSet \cup DigitSet \cup {"_", "-"}

LowerMap == [c \in UpperSet |-> LowerSeq[CHOOSE i \in 1..26 : UpperSeq[i] = c]]
DigitMap == [c \in DigitSet |-> (CHOOSE i \in 1..10 : DigitSeq[i] = c) - 1]

\* str.lower() on one character
lower_char(c) == IF c \in UpperSet THEN LowerMap[c] ELSE c

\* str.lower()
str_lower(s) == [i \in 1..Len(s) |-> lower_char(s[i])]

\* s[:n]
Slice(s, n) == IF Len(s) <= n THEN s ELSE SubSeq(s, 1, n)

\* index of the last character of the maximal run of Class characters that
\* starts at i (s[i] is in Class): a greedy  [Class]+  or  [Class]*
RunEnd(s, i, Class) ==
  CHOOSE j \in i..Len(s) :
    /\ j = Len(s) \/ s[j + 1] \notin Class
    /\ \A k \in (i + 1)..j : s[k] \in Class

\* first index >= i whose character is not in Class (Len(s)+1 if none):
\* where a greedy  [Class]*  tried at i stops
SkipRun(s, i, Class) ==
  IF i <= Len(s) /\ s[i] \in Class THEN RunEnd(s, i, Class) + 1 ELSE i

\* first index >= i whose character is in Class (Len(s)+1 if none):
\* where a greedy  [^Class]*  tried at i stops
SkipRunNot(s, i, Class) ==
  CHOOSE j \in i..(Len(s) + 1) :
    /\ j = Len(s) + 1 \/ s[j] \in Class
    /\ \A k \in i..(j - 1) : s[k] \notin Class

\* the literal lit (given in lower case) matches at i, ignoring case
HasAt(s, i, lit) ==
  /\ i >= 1
  /\ i + Len(lit) - 1 <= Len(s)
  /\ \A k \in 1..Len(lit) : lower_char(s[i + k - 1]) = lit[k]

\* int(digits)
RECURSIVE ParseInt(_)
ParseInt(ds) ==
  IF Len(ds) = 0 THEN 0
  ELSE 10 * ParseInt(SubSeq(ds, 1, Len(ds) - 1)) + DigitMap[ds[Len(ds)]]

\* str.strip(): from the first to the last character that is not whitespace
strip(s) ==
  LET b == SkipRun(s, 1, SpaceSet)
  IN  IF b > Len(s) THEN <<>>
      ELSE SubSeq(s, b, CHOOSE e \in b..Len(s) :
                          /\ s[e] \notin SpaceSet
                          /\ \A k \in (e + 1)..Len(s) : s[k] \in SpaceSet)

\* str.split() : the maximal runs of non-whitespace characters
RECURSIVE split_from(_, _)
split_from(s, i) ==
  LET b == SkipRun(s, i, SpaceSet)
      e == SkipRunNot(s, b, SpaceSet)
  IN  IF b > Len(s) THEN <<>>
      ELSE <<SubSeq(s, b, e - 1)>> \o split_from(s, e)

split(s) == split_from(s, 1)

\* part in s  (substring test; part is not empty)
IsSubstring(part, s) ==
  \E i \in 1..(Len(s) - Len(part) + 1) : SubSeq(s, i, i + Len(part) - 1) = part

Min(S) == CHOOSE m \in S : \A x \in S : m <= x

\* the elements of a finite set of integers in increasing order
RECURSIVE SetToSeq(_)
SetToSeq(S) == IF S = {} THEN <<>> ELSE <<Min(S)>> \o SetToSeq(S \ {Min(S)})

\* sep.join(items)
RECURSIVE join(_, _)
join(sep, items) ==
  IF Len(items) = 0 THEN <<>>
  ELSE IF Len(items) = 1 THEN items[1]
  ELSE items[1] \o sep \o join(sep, Tail(items))

-----------------------------------------------------------------------------
(* Regex patterns (fraud_checker.py, lines 26-38)                          *)

Lit_https == <<"h","t","t","p","s",":","/","/">>
Lit_http == <<"h","t","t","p",":","/","/">>
Lit_www == <<"w","w","w",".">>
Lit_github == <<"g","i","t","h","u","b",".","c","o","m","/">>
Lit_linkedin == <<"l","i","n","k","e","d","i","n",".","c","o","m","/","i","n","/">>
Lit_year == <<"y","e","a","r">>
Lit_yr == <<"y","r">>

\* positions where  (?:https?://)?(?:www\.)?  tried at i can end
PrefixEnds(s, i) ==
  LET E1 == {i} \cup (IF HasAt(s, i, Lit_https) THEN {i + 8} ELSE {})
                \cup (IF HasAt(s, i, Lit_http) THEN {i + 7} ELSE {})
  IN  E1 \cup {e + 4 : e \in {x \in E1 : HasAt(s, x, Lit_www)}}

\* positions of the host literal in the matches of
\*   (?:https?://)?(?:www\.)?<host>([A-Za-z0-9_-]+)   that start at i
ProfileMatchAt(s, i, host) ==
  {e \in PrefixEnds(s, i) :
      /\ HasAt(s, e, host)
      /\ e + Len(host) <= Len(s)
      /\ s[e + Len(host)] \in HandleSet}

\* PATTERN.search(text) of a profile pattern, re.IGNORECASE: None (<<>>) or
\* group(1) of the leftmost match (<<handle>>); the optional groups are greedy
profile_search(s, host) ==
  LET starts == {i \in 1..Len(s) : ProfileMatchAt(s, i, host) # {}}
  IN  IF starts = {} THEN <<>>
      ELSE LET i == Min(starts)
               ends == ProfileMatchAt(s, i, host)
               e == CHOOSE x \in ends : \A y \in ends : y <= x
               b == e + Len(host)
           IN  <<SubSeq(s, b, RunEnd(s, b, HandleSet))>>

GITHUB_PATTERN_search(s) == profile_search(s, Lit_github)
LINKEDIN_PATTERN_search(s) == profile_search(s, Lit_linkedin)

\* \b at the gap before index i (between s[i-1] and s[i])
WordBoundary(s, i) ==
  LET before == i - 1 >= 1 /\ i - 1 <= Len(s) /\ s[i - 1] \in WordSet
      after == i >= 1 /\ i <= Len(s) /\ s[i] \in WordSet
  IN  before # after

\*  \b(19|20)\d{2}\b  matches at i
YearMatchAt(s, i) ==
  /\ i + 3 <= Len(s)
  /\ WordBoundary(s, i)
  /\ \/ (s[i] = "1" /\ s[i + 1] = "9")
     \/ (s[i] = "2" /\ s[i + 1] = "0")
  /\ s[i + 2] \in DigitSet
  /\ s[i + 3] \in DigitSet
  /\ WordBoundary(s, i + 4)

\* YEAR_PATTERN.findall(text): the pattern has exactly one capturing group,
\* (19|20), so findall returns that group of every match, left to right
YEAR_PATTERN_findall(s) ==
  LET starts == SetToSeq({i \in 1..Len(s) : YearMatchAt(s, i)})
  IN  [k \in 1..Len(starts) |-> SubSeq(s, starts[k], starts[k] + 1)]

\*  (\d+)\+?\s*(?:years?|yrs?)\s*(?:of\s+)?(?:experience|exp)?  matches at i:
\* everything after years?|yrs? is optional, and a shorter \d+ is followed by
\* a digit, which none of  \+? \s* y  accepts
ExperienceMatchAt(s, i) ==
  /\ s[i] \in DigitSet
  /\ LET d == RunEnd(s, i, DigitSet) + 1
         p == IF d <= Len(s) /\ s[d] = "+" THEN d + 1 ELSE d
         q == SkipRun(s, p, SpaceSet)
     IN  HasAt(s, q, Lit_year) \/ HasAt(s, q, Lit_yr)

\* EXPERIENCE_PATTERN.search(text): None or group(1) of the leftmost match
EXPERIENCE_PATTERN_search(s) ==
  LET starts == {i \in 1..Len(s) : ExperienceMatchAt(s, i)}
  IN  IF starts = {} THEN <<>>
      ELSE LET i == Min(starts)
           IN  <<SubSeq(s, i, RunEnd(s, i, DigitSet))>>

\* ^ under re.MULTILINE
LineStart(s, i) == i = 1 \/ s[i - 1] = "\n"

\* [A-Z][a-z]+ matches at i
CapWordAt(s, i) ==
  /\ i + 1 <= Len(s)
  /\ s[i] \in UpperSet
  /\ s[i + 1] \in LowerSet

\* end of  [A-Z][a-z]+(?:\s+[A-Z][a-z]+){0,n}  started at i (greedy)
RECURSIVE NameEnd(_, _, _)
NameEnd(s, i, n) ==
  LET e == RunEnd(s, i + 1, LowerSet)
      w == SkipRun(s, e + 1, SpaceSet)
  IN  IF n > 0 /\ w > e + 1 /\ CapWordAt(s, w) THEN NameEnd(s, w, n - 1) ELSE e

\* NAME_PATTERN.search(text): None or group(1) of the leftmost match
NAME_PATTERN_search(s) ==
  LET starts == {i \in 1..Len(s) : LineStart(s, i) /\ CapWordAt(s, i)}
  IN  IF starts = {} THEN <<>>
      ELSE LET i == Min(starts) IN <<SubSeq(s, i, NameEnd(s, i, 3))>>

\* re.findall(r"[a-zA-Z]{3,}", s): the matches are the maximal runs of
\* letters of length >= 3. The list is kept as the function from the index
\* where a match starts to the matched word; list order is index order.
WordStarts(s) ==
  {i \in 1..Len(s) :
      /\ s[i] \in AlphaSet
      /\ (i = 1 \/ s[i - 1] \notin AlphaSet)
      /\ i + 2 <= Len(s)
      /\ s[i + 1] \in AlphaSet
      /\ s[i + 2] \in AlphaSet}

findall_words(s) ==
  [i \in WordStarts(s) |-> SubSeq(s, i, RunEnd(s, i, AlphaSet))]

-----------------------------------------------------------------------------
(* Extraction helpers (fraud_checker.py, lines 41-72)                      *)

\* bool(x) of an Optional[int]: None and 0 are falsy
Truthy(opt) == opt # <<>> /\ opt[1] # 0

\* _extract_name: "" when nothing matches
extract_name(s) ==
  LET match == NAME_PATTERN_search(s)
  IN  IF match # <<>> THEN strip(match[1]) ELSE <<>>

\* _normalize
normalize(name) == SelectSeq(str_lower(name), LAMBDA c : c \in LowerSet)

\* faulty variant: parts of 2 characters count as well
name_matches_Len2(candidate_name, profile_username) ==
  IF candidate_name = <<>> \/ profile_username = <<>> THEN FALSE
  ELSE \E k \in 1..Len(split(str_lower(candidate_name))) :
          /\ Len(split(str_lower(candidate_name))[k]) >= 2
          /\ IsSubstring(split(str_lower(candidate_name))[k],
                         SelectSeq(str_lower(profile_username),
                                   LAMBDA c : c \in LowerSet))

\* _name_matches
name_matches(candidate_name, profile_username) ==
  IF candidate_name = <<>> \/ profile_username = <<>> THEN FALSE
  ELSE LET norm_username == normalize(profile_username)
           parts == split(str_lower(candidate_name))
       IN  \E k \in 1..Len(parts) :
              Len(parts[k]) > 2 /\ IsSubstring(parts[k], norm_username)

\* _extract_graduation_year
extract_graduation_year(s) ==
  LET found == YEAR_PATTERN_findall(s)
      years == [k \in 1..Len(found) |-> ParseInt(found[k])]
      grad_candidates == SelectSeq(years, LAMBDA y : 1970 <= y /\ y <= 2099)
  IN  IF grad_candidates # <<>>
      THEN <<Min({grad_candidates[k] : k \in 1..Len(grad_candidates)})>>
      ELSE <<>>

\* _extract_experience_years
extract_experience_years(s) ==
  LET match == EXPERIENCE_PATTERN_search(s)
  IN  IF match # <<>> THEN <<ParseInt(match[1])>> ELSE <<>>

-----------------------------------------------------------------------------
(* check_fraud (fraud_checker.py, lines 77-181)                            *)
(* A reason is the sequence of the pieces of its (f-)string: the literal   *)
(* parts as written in the source, the interpolated values in between.     *)

EmptyReason == <<"Resume content is empty or too short (< 50 characters)">>
MissingGitHubReason == <<"Missing GitHub profile URL">>
MissingLinkedInReason == <<"Missing LinkedIn profile URL">>

GitHubMismatchReason(gh_user, candidate_name) ==
  <<"GitHub username '", gh_user, "' does not match candidate name '",
    candidate_name, "'">>

LinkedInMismatchReason(li_user, candidate_name) ==
  <<"LinkedIn username '", li_user, "' does not match candidate name '",
    candidate_name, "'">>

FutureGraduationReason(grad_year) ==
  <<"Graduation year (", grad_year, ") is in the future">>

ExperienceMismatchReason(exp_years, grad_year, max_possible) ==
  <<"Claimed ", exp_years, " years experience but graduated in ", grad_year,
    " (max possible: ", max_possible, " years)">>

RepeatedWordsReason(repeated) ==
  <<"Words repeated excessively (>25 times): ",
    join(<<",", " ">>, Slice(repeated, 5))>>

UnrealisticReason(exp_years) ==
  <<"Unrealistic experience claimed: ", exp_years, " years (>40)">>

\* faulty variant: the delta is subtracted
Penalize_Subtract(acc, delta, reason) ==
  [fraud_score |-> acc.fraud_score - delta,
   reasons |-> Append(acc.reasons, reason)]

\* faulty variant: the reason is inserted at the head of the list
Penalize_Prepend(acc, delta, reason) ==
  [fraud_score |-> acc.fraud_score + delta,
   reasons |-> <<reason>> \o acc.reasons]

\* fraud_score += delta ; reasons.append(reason)
Penalize(acc, delta, reason) ==
  [fraud_score |-> acc.fraud_score + delta,
   reasons |-> Append(acc.reasons, reason)]

\* faulty variant: the length of the untrimmed text is tested
ShortCircuit_NoStrip(s) == Len(s) < 50

\* F) empty resume check: the early return of lines 88-96
ShortCircuit(s) == Len(strip(s)) < 50

ShortReport(s, fname) ==
  [filename |-> fname,
   fraud_score |-> 100,
   fraud_status |-> "Suspicious",
   reasons |-> <<EmptyReason>>,
   extracted_preview |-> Slice(s, 300)]

\* A) GitHub & LinkedIn presence (lines 102-110)
MissingGitHub(acc, github_match) ==
  IF github_match = <<>> THEN Penalize(acc, 25, MissingGitHubReason) ELSE acc

\* faulty variant: "elif": LinkedIn is looked at only when GitHub was present
MissingLinkedIn_Elif(acc, linkedin_match) ==
  IF linkedin_match = <<>> /\ acc.reasons = <<>>
  THEN [fraud_score |-> acc.fraud_score + 25,
        reasons |-> Append(acc.reasons, <<"Missing LinkedIn profile URL">>)]
  ELSE acc

MissingLinkedIn(acc, linkedin_match) ==
  IF linkedin_match = <<>> THEN Penalize(acc, 25, MissingLinkedInReason) ELSE acc

\* B) profile-name validation (lines 115-131)
GitHubMismatch(acc, github_match, candidate_name) ==
  IF github_match # <<>> /\ candidate_name # <<>>
     /\ ~name_matches(candidate_name, github_match[1])
  THEN Penalize(acc, 30, GitHubMismatchReason(github_match[1], candidate_name))
  ELSE acc

LinkedInMismatch(acc, linkedin_match, candidate_name) ==
  IF linkedin_match # <<>> /\ candidate_name # <<>>
     /\ ~name_matches(candidate_name, linkedin_match[1])
  THEN Penalize(acc, 30, LinkedInMismatchReason(linkedin_match[1], candidate_name))
  ELSE acc

\* C) education vs experience (lines 137-150)
FutureGraduation(acc, grad_year, year) ==
  IF Truthy(grad_year) /\ grad_year[1] > year
  THEN Penalize(acc, 20, FutureGraduationReason(grad_year[1]))
  ELSE acc

ExperienceMismatch(acc, grad_year, exp_years, year) ==
  IF Truthy(grad_year) /\ Truthy(exp_years)
  THEN LET max_possible == year - grad_year[1]
       IN  IF max_possible >= 0 /\ exp_years[1] > max_possible
           THEN Penalize(acc, 30,
                  ExperienceMismatchReason(exp_years[1], grad_year[1], max_possible))
           ELSE acc
  ELSE acc

\* Counter(words).items(): a dict keeps insertion order, so the keys come in
\* order of first occurrence; here the index of each key's first occurrence
CounterKeys(words) ==
  {i \in DOMAIN words : \A j \in DOMAIN words : j < i => words[j] # words[i]}

CounterCount(words, w) == Cardinality({i \in DOMAIN words : words[i] = w})

\* faulty variant: 25 occurrences count as repeated
RepeatedWords_AtLeast(s) ==
  LET words == [i \in WordStarts(str_lower(s)) |->
                  SubSeq(str_lower(s), i, RunEnd(str_lower(s), i, AlphaSet))]
      count(w) == Cardinality({i \in DOMAIN words : words[i] = w})
      order == SetToSeq({i \in DOMAIN words :
                           /\ \A j \in DOMAIN words : j < i => words[j] # words[i]
                           /\ count(words[i]) >= 25})
  IN  [k \in 1..Len(order) |-> words[order[k]]]

\* repeated = [w for w, c in word_counts.items() if c > 25]
RepeatedWords(s) ==
  LET words == findall_words(str_lower(s))
      order == SetToSeq({i \in CounterKeys(words) :
                           CounterCount(words, words[i]) > 25})
  IN  [k \in 1..Len(order) |-> words[order[k]]]

\* D) repeated-word detection (lines 153-159)
RepeatedRule(acc, s) ==
  LET repeated == RepeatedWords(s)
  IN  IF repeated # <<>>
      THEN Penalize(acc, 15, RepeatedWordsReason(repeated))
      ELSE acc

\* faulty variant: the override adds 50 to the score
UnrealisticExperience_Additive(acc, exp_years) ==
  IF Truthy(exp_years) /\ exp_years[1] > 40
  THEN [fraud_score |-> acc.fraud_score + 50,
        reasons |-> Append(acc.reasons, <<"Unrealistic experience claimed: ",
                                          exp_years[1], " years (>40)">>)]
  ELSE acc

\* E) unrealistic experience (lines 162-165)
UnrealisticExperience(acc, exp_years) ==
  IF Truthy(exp_years) /\ exp_years[1] > 40
  THEN [fraud_score |-> IF acc.fraud_score >= 50 THEN acc.fraud_score ELSE 50,
        reasons |-> Append(acc.reasons, UnrealisticReason(exp_years[1]))]
  ELSE acc

\* cap and determine status; build the report (lines 168-181)
CapScore(score) == IF score <= 100 THEN score ELSE 100

\* faulty variant: the threshold is exclusive
StatusOf_Exclusive(score) == IF score > 50 THEN "Suspicious" ELSE "Genuine"

StatusOf(score) == IF score >= 50 THEN "Suspicious" ELSE "Genuine"

FullReport(acc, s, fname) ==
  LET fraud_score == CapScore(acc.fraud_score)
  IN  [filename |-> fname,
       fraud_score |-> fraud_score,
       fraud_status |-> StatusOf(fraud_score),
       reasons |-> acc.reasons,
       extracted_preview |-> Slice(s, 300)]

\* the accumulated score and reasons after rules A-E, before the cap
Accumulate(s, year) ==
  LET github_match == GITHUB_PATTERN_search(s)
      linkedin_match == LINKEDIN_PATTERN_search(s)
      candidate_name == extract_name(s)
      grad_year == extract_graduation_year(s)
      exp_years == extract_experience_years(s)
      a0 == [fraud_score |-> 0, reasons |-> <<>>]
      a1 == MissingGitHub(a0, github_match)
      a2 == MissingLinkedIn(a1, linkedin_match)
      a3 == GitHubMismatch(a2, github_match, candidate_name)
      a4 == LinkedInMismatch(a3, linkedin_match, candidate_name)
      a5 == FutureGraduation(a4, grad_year, year)
      a6 == ExperienceMismatch(a5, grad_year, exp_years, year)
      a7 == RepeatedRule(a6, s)
  IN  UnrealisticExperience(a7, exp_years)

check_fraud(s, fname, year) ==
  IF ShortCircuit(s) THEN ShortReport(s, fname)
  ELSE FullReport(Accumulate(s, year), s, fname)

-----------------------------------------------------------------------------
(* Input resumes: a text is the concatenation of one choice per slot       *)

MaxRepeat == 26
MaxPad == 301

\* s * n
Repeat(s, n) == [i \in 1..(n * Len(s)) |-> s[((i - 1) % Len(s)) + 1]]

\* a name line of two capitalized words
Name_JohnSmith ==
  <<"J","o","h","n"," ","S","m","i","t","h","\n">>

\* a name whose parts have 2 characters each
Name_LiWu ==
  <<"L","i"," ","W","u","\n">>

\* a name line followed by a capitalized title line
Name_TwoLines ==
  <<"J","a","n","e"," ","D","o","e","\n","S","e","n","i","o","r"," ","J",
    "a","v","a"," ","D","e","v","e","l","o","p","e","r","\n">>

GitHub_Match ==
  <<"g","i","t","h","u","b",".","c","o","m","/","j","o","h","n","s","m","i",
    "t","h","9","9","\n">>

GitHub_Other ==
  <<"h","t","t","p","s",":","/","/","w","w","w",".","G","i","t","H","u","b",
    ".","c","o","m","/","c","0","d","e","r","-","x","\n">>

GitHub_Java ==
  <<"h","t","t","p",":","/","/","g","i","t","h","u","b",".","c","o","m","/",
    "j","a","v","a","g","u","r","u","\n">>

\* the host without a handle character: no match
GitHub_NoHandle ==
  <<"s","e","e"," ","g","i","t","h","u","b",".","c","o","m","/"," ","\n">>

LinkedIn_Match ==
  <<"l","i","n","k","e","d","i","n",".","c","o","m","/","i","n","/","j","o",
    "h","n","s","m","i","t","h","\n">>

LinkedIn_Li ==
  <<"w","w","w",".","L","i","n","k","e","d","I","n",".","c","o","m","/","i",
    "n","/","l","i","-","w","\n">>

Year_2020 ==
  <<"g","r","a","d","u","a","t","e","d"," ","2","0","2","0","\n">>

Year_2030 ==
  <<"g","r","a","d","u","a","t","e","d"," ","2","0","3","0","\n">>

Year_Two ==
  <<"s","i","n","c","e"," ","1","9","8","5"," ","d","e","g","r","e","e"," ",
    "2","0","2","0","\n">>

\* no token of the year pattern in [1970, 2099]
Year_None ==
  <<"i","d"," ","1","9","6","9"," ","x","2","0","2","1"," ","2","0","2","0",
    "1","\n">>

Exp_5 ==
  <<"5"," ","y","e","a","r","s"," ","o","f"," ","e","x","p","e","r","i","e",
    "n","c","e","\n">>

Exp_42 ==
  <<"4","2"," ","y","e","a","r","s"," ","o","f"," ","e","x","p","e","r","i",
    "e","n","c","e","\n">>

Exp_41Plus ==
  <<"4","1","+"," ","y","r","s"," ","e","x","p","\n">>

Exp_40 ==
  <<"0","4","0"," ","Y","e","a","r","s","\n">>

Exp_0 ==
  <<"0"," ","y","e","a","r","s","\n">>

\* 58 characters, no signal
Body_Base ==
  <<"p","y","t","h","o","n"," ","d","e","v","e","l","o","p","e","r"," ","b",
    "u","i","l","d","i","n","g"," ","w","e","b"," ","s","e","r","v","i","c",
    "e","s"," ","a","n","d"," ","d","a","t","a"," ","p","i","p","e","l","i",
    "n","e","s","\n">>

Word_Spam ==
  <<"s","p","a","m"," ">>

Word_Six ==
  <<"z","e","t","a"," ","e","g","g","s"," ","b","a","c","o","n"," ","b","e",
    "a","n","s"," ","t","o","a","s","t"," ","j","u","i","c","e","\n">>

Word_Alpha == <<"a","l","p","h","a"," ">>

NameLines == {<<>>, Name_JohnSmith, Name_LiWu, Name_TwoLines}
GitHubLines == {<<>>, GitHub_Match, GitHub_Other, GitHub_Java, GitHub_NoHandle}
LinkedInLines == {<<>>, LinkedIn_Match, LinkedIn_Li}
YearLines == {Year_2020, Year_2030, Year_Two, Year_None}
ExpLines == {<<>>, Exp_5, Exp_42, Exp_41Plus, Exp_40, Exp_0}
LeadPads == {<<>>, <<" ", "\n">>}

Body_25 == Body_Base \o Repeat(Word_Spam, MaxRepeat - 1)
Body_26 == Body_Base \o Repeat(Word_Spam, MaxRepeat)
Body_Six == Repeat(Word_Six, MaxRepeat) \o Repeat(Word_Alpha, MaxRepeat + 1)

\* every combination of name line and profile links, short and long
ProfileTexts ==
  {p \o n \o g \o l \o e \o b :
     p \in LeadPads, n \in NameLines, g \in GitHubLines, l \in LinkedInLines,
     e \in {<<>>, Exp_5, Exp_42}, b \in {<<>>, Body_Base}}

\* every combination of year line and experience line
TimelineTexts ==
  {Name_JohnSmith \o g \o l \o y \o e \o Body_Base :
     g \in {<<>>, GitHub_Match}, l \in {<<>>, LinkedIn_Match},
     y \in YearLines, e \in ExpLines}

\* words repeated 25 times, 26 times, and six words repeated 26 times or more
RepeatTexts ==
  {n \o g \o l \o e \o b :
     n \in {<<>>, Name_JohnSmith, Name_LiWu}, g \in {<<>>, GitHub_Match},
     l \in {<<>>, LinkedIn_Match}, e \in {<<>>, Exp_42},
     b \in {Body_25, Body_26, Body_Six}}

\* short content followed by more than 300 blanks
PaddedTexts ==
  {p \o x \o Repeat(<<" ">>, MaxPad) :
     p \in LeadPads, x \in {<<>>, Name_JohnSmith, Exp_42, Body_Base}}

Texts == ProfileTexts \cup TimelineTexts \cup RepeatTexts \cup PaddedTexts

Filenames == {<<"c","v",".","p","d","f">>}
Years == {2019, 2024}

-----------------------------------------------------------------------------
(* One call of check_fraud                                                 *)

NoReport == <<>>

Init ==
  /\ text \in Texts
  /\ filename \in Filenames
  /\ current_year \in Years
  /\ report = NoReport
  /\ pc = "start"
  /\ db = <<>>
  /\ request = <<>>
  /\ response = <<>>
  /\ fraud_calls = 0
  /\ uploads = 0
  /\ returned = 0

CheckFraud ==
  /\ pc = "start"
  /\ report' = check_fraud(text, filename, current_year)
  /\ pc' = "done"
  /\ UNCHANGED <<text, filename, current_year>>
  /\ UNCHANGED upload_vars

Next == CheckFraud

Spec == Init /\ [][Next]_vars

-----------------------------------------------------------------------------
(* extractor.py and the upload route of main.py                            *)

\* os.path.splitext(p)[1]: from the last dot of the last path component on,
\* unless that component has only dots before it
splitext_ext(p) ==
  LET seps == {i \in 1..Len(p) : p[i] = "/"}
      dots == {i \in 1..Len(p) : p[i] = "."}
      sepIndex == IF seps = {} THEN 0 ELSE CHOOSE i \in seps : \A j \in seps : j <= i
      dotIndex == IF dots = {} THEN 0 ELSE CHOOSE i \in dots : \A j \in dots : j <= i
  IN  IF dotIndex > sepIndex /\ \E k \in (sepIndex + 1)..(dotIndex - 1) : p[k] # "."
      THEN SubSeq(p, dotIndex, Len(p))
      ELSE <<>>

Ext_pdf == <<".", "p", "d", "f">>
Ext_docx == <<".", "d", "o", "c", "x">>

\* main.py line 48
ALLOWED_EXTENSIONS == {Ext_pdf, Ext_docx}

\* main.py line 47
UPLOAD_DIR == <<"/", "a", "p", "p", "/", "u", "p", "l", "o", "a", "d", "s">>

\* os.path.join(UPLOAD_DIR, name)
path_join(dir, name) ==
  IF name # <<>> /\ name[1] = "/" THEN name ELSE dir \o <<"/">> \o name

\* A stored document: readable or not, and the texts of its pages (PDF) or
\* paragraphs (DOCX). A call that can raise returns <<>> when it raises and
\* <<value>> when it returns.

\* faulty variant: a failed extraction is swallowed and yields the empty text
extract_text_from_pdf_Swallow(doc) ==
  IF ~doc.readable THEN <<<<>>>>
  ELSE <<join(<<"\n">>, SelectSeq(doc.parts, LAMBDA page_text : page_text # <<>>))>>

\* extract_text_from_pdf: the non-empty page texts joined by "\n"
extract_text_from_pdf(doc) ==
  IF ~doc.readable THEN <<>>
  ELSE <<join(<<"\n">>, SelectSeq(doc.parts, LAMBDA page_text : page_text # <<>>))>>

\* extract_text_from_docx: all paragraph texts joined by "\n"
extract_text_from_docx(doc) ==
  IF ~doc.readable THEN <<>> ELSE <<join(<<"\n">>, doc.parts)>>

\* extract_text: dispatch on the extension; ValueError for any other
extract_text(filepath, doc) ==
  LET ext == str_lower(splitext_ext(filepath))
  IN  IF ext = Ext_pdf THEN extract_text_from_pdf(doc)
      ELSE IF ext = Ext_docx THEN extract_text_from_docx(doc)
      ELSE <<>>

\* json.dumps of a list of strings
json_dumps(reasons) == [json |-> reasons]

\* ResumeResult(...) ; db.add ; db.commit ; db.refresh
ResumeResultRow(table, user_id, fname, result, now) ==
  [id |-> Len(table) + 1,
   user_id |-> user_id,
   filename |-> fname,
   fraud_score |-> result.fraud_score,
   fraud_status |-> result.fraud_status,
   reasons |-> json_dumps(result.reasons),
   uploaded_at |-> now]

HTTPError(status_code, detail) ==
  [status_code |-> status_code, detail |-> detail]

\* Lines 165-182: the row is added and committed, then the report returned.
\* commit_ok is whether db.commit() succeeds (an exception it raises is not
\* caught: FastAPI answers 500 and the session is discarded).
persist(table, user_id, fname, result, commit_ok, now) ==
  IF ~commit_ok
  THEN [db |-> table, calls |-> 1,
        response |-> HTTPError(500, <<"Internal Server Error">>)]
  ELSE [db |-> Append(table, ResumeResultRow(table, user_id, fname, result, now)),
        calls |-> 1,
        response |-> [status_code |-> 200, body |-> result]]

\* upload_resume (main.py lines 120-182), from the request to the response.
\* file_name is file.filename; save_ok whether writing the file to uploads/
\* succeeds; doc the uploaded document.
\* Yields the table, the response and the number of check_fraud calls made.
upload_resume(table, user_id, file_name, save_ok, doc, commit_ok, year, now) ==
  LET ext == str_lower(splitext_ext(file_name))
      filepath == path_join(UPLOAD_DIR, file_name)
      extracted == extract_text(filepath, doc)
  IN  IF ext \notin ALLOWED_EXTENSIONS
      THEN [db |-> table, calls |-> 0,
            response |-> HTTPError(400, <<"Unsupported file type '", ext,
                                          "'. Only PDF and DOCX are accepted.">>)]
      ELSE IF ~save_ok
      THEN [db |-> table, calls |-> 0,
            response |-> HTTPError(500, <<"Failed to save uploaded file">>)]
      ELSE IF extracted = <<>>
      THEN [db |-> table, calls |-> 0,
            response |-> HTTPError(500, <<"Failed to extract text from resume">>)]
      ELSE persist(table, user_id, file_name,
                   check_fraud(extracted[1], file_name, year), commit_ok, now)

-----------------------------------------------------------------------------
(* Requests to /upload-resume                                              *)

MaxUploads == 2

File_Pdf == <<"c","v",".","p","d","f">>
File_Docx == <<"C","V",".","D","o","c","x">>
File_Txt == <<"c","v",".","t","x","t">>
File_DotPdf == <<".","p","d","f">>
File_PdfExe == <<"c","v",".","p","d","f",".","e","x","e">>

UploadNames == {File_Pdf, File_Docx, File_Txt, File_DotPdf, File_PdfExe}

Doc_Corrupt == [readable |-> FALSE, parts |-> <<>>]
Doc_Empty == [readable |-> TRUE, parts |-> <<>>]
Doc_Plain == [readable |-> TRUE, parts |-> <<Body_Base, <<>>, Exp_42>>]
Doc_Clean ==
  [readable |-> TRUE,
   parts |-> <<Name_JohnSmith \o GitHub_Match \o LinkedIn_Match, Body_Base>>]

Docs == {Doc_Corrupt, Doc_Empty, Doc_Plain, Doc_Clean}

Users == {1, 2}

UploadInit ==
  /\ text = <<>>
  /\ filename = <<>>
  /\ current_year \in {2024}
  /\ report = NoReport
  /\ pc = "serving"
  /\ db = <<>>
  /\ request = <<>>
  /\ response = <<>>
  /\ fraud_calls = 0
  /\ uploads = 0
  /\ returned = 0

\* one request served from beginning to end (the handler has no await)
Serve(user_id, file_name, save_ok, doc, commit_ok) ==
  \E out \in {upload_resume(db, user_id, file_name, save_ok, doc, commit_ok,
                            current_year, uploads + 1)} :
      /\ request' = [user_id |-> user_id, filename |-> file_name,
                     save_ok |-> save_ok, doc |-> doc, commit_ok |-> commit_ok]
      /\ response' = out.response
      /\ db' = out.db
      /\ fraud_calls' = fraud_calls + out.calls
      /\ uploads' = uploads + 1
      /\ returned' = returned + (IF out.response.status_code = 200 THEN 1 ELSE 0)
      /\ UNCHANGED fraud_vars

\* The inputs are drawn as the handler consumes them: an input it never
\* reads (the document of a request rejected for its extension, ...) is not
\* varied and stands at TRUE / Doc_Empty.
Upload ==
  /\ pc = "serving"
  /\ uploads < MaxUploads
  /\ \E user_id \in Users, file_name \in UploadNames :
       IF str_lower(splitext_ext(file_name)) \notin ALLOWED_EXTENSIONS
       THEN Serve(user_id, file_name, TRUE, Doc_Empty, TRUE)
       ELSE \E save_ok \in BOOLEAN :
              IF ~save_ok
              THEN Serve(user_id, file_name, FALSE, Doc_Empty, TRUE)
              ELSE \E doc \in Docs :
                     IF ~doc.readable
                     THEN Serve(user_id, file_name, TRUE, doc, TRUE)
                     ELSE \E commit_ok \in BOOLEAN :
                            Serve(user_id, file_name, TRUE, doc, commit_ok)

UploadNext == Upload

UploadSpec == UploadInit /\ [][UploadNext]_vars


-----------------------------------------------------------------------------
(* Vocabulary of the properties: what a report says, read off the report   *)

Returned == pc = "done"

\* the text goes through the full analysis (50 or more trimmed characters)
TrimmedLength(s) ==
  Cardinality({i \in 1..Len(s) :
                 /\ \E a \in 1..i : s[a] \notin SpaceSet
                 /\ \E b \in i..Len(s) : s[b] \notin SpaceSet})

FullPath == Returned /\ TrimmedLength(text) >= 50
ShortPath == Returned /\ TrimmedLength(text) < 50

\* the reasons of the report whose leading literal is lit
ReasonsOf(lit) == {k \in 1..Len(report.reasons) : report.reasons[k][1] = lit}
HasReason(lit) == ReasonsOf(lit) # {}

\* the score delta the scoring table gives to the rule a reason belongs to
DeltaOf(reason) ==
  CASE reason[1] = "Missing GitHub profile URL" -> 25
    [] reason[1] = "Missing LinkedIn profile URL" -> 25
    [] reason[1] = "GitHub username '" -> 30
    [] reason[1] = "LinkedIn username '" -> 30
    [] reason[1] = "Graduation year (" -> 20
    [] reason[1] = "Claimed " -> 30
    [] reason[1] = "Words repeated excessively (>25 times): " -> 15
    [] OTHER -> 0

\* S: the sum of the additive deltas of the rules that left a reason
RECURSIVE SumDeltas(_)
SumDeltas(reasons) ==
  IF reasons = <<>> THEN 0 ELSE DeltaOf(Head(reasons)) + SumDeltas(Tail(reasons))

AdditiveSum == SumDeltas(report.reasons)

Min2(a, b) == IF a <= b THEN a ELSE b
Max2(a, b) == IF a >= b THEN a ELSE b

\* the score the report must carry given the rules that left a reason: the
\* additive sum, floored at 50 by the unrealistic-experience override, capped
ScoreFollowsReasons ==
  report.fraud_score =
    Min2(100, IF HasReason("Unrealistic experience claimed: ")
              THEN Max2(AdditiveSum, 50) ELSE AdditiveSum)

\* a 4-digit token beginning with 19 or 20 stands at i
YearTokenAt(s, i) ==
  /\ i + 3 <= Len(s)
  /\ \A k \in 0..3 : s[i + k] \in DigitSet
  /\ <<s[i], s[i + 1]>> \in {<<"1", "9">>, <<"2", "0">>}
  /\ i = 1 \/ s[i - 1] \notin WordSet
  /\ i + 3 = Len(s) \/ s[i + 4] \notin WordSet

\* G: the minimum of the 4-digit year tokens of the text lying in [1970, 2099]
StatedGraduationYear(s) ==
  LET tokens == {ParseInt(SubSeq(s, i, i + 3)) :
                   i \in {j \in 1..Len(s) : YearTokenAt(s, j)}}
      inrange == {y \in tokens : 1970 <= y /\ y <= 2099}
  IN  IF inrange = {} THEN <<>> ELSE <<Min(inrange)>>

\* the timeline conditions of the two timeline rules, on G, E and Y
FutureGraduationCase(G, Y) == G # <<>> /\ G[1] > Y

ExperienceExceedsCase(G, E, Y) ==
  /\ G # <<>>
  /\ E # <<>>
  /\ Y - G[1] >= 0
  /\ E[1] > Y - G[1]

\* the whitespace-separated parts of the lowercased name
NameParts(name) ==
  LET low == str_lower(name)
      n == Len(low)
  IN  {SubSeq(low, a, b) :
         <<a, b>> \in {ab \in (1..n) \X (1..n) :
                        /\ ab[1] <= ab[2]
                        /\ \A k \in ab[1]..ab[2] : low[k] \notin SpaceSet
                        /\ ab[1] = 1 \/ low[ab[1] - 1] \in SpaceSet
                        /\ ab[2] = n \/ low[ab[2] + 1] \in SpaceSet}}

\* the handle lowercased, all non-alphabetic characters removed
RECURSIVE HandleLetters(_)
HandleLetters(handle) ==
  IF handle = <<>> THEN <<>>
  ELSE LET c == lower_char(Head(handle))
       IN  (IF c \in LowerSet THEN <<c>> ELSE <<>>) \o HandleLetters(Tail(handle))

\* some part of the name longer than 2 characters is a substring of the handle
StatedNameMatch(name, handle) ==
  \E part \in NameParts(name) :
     /\ Len(part) > 2
     /\ \E i \in 1..Len(HandleLetters(handle)) :
          /\ i + Len(part) - 1 <= Len(HandleLetters(handle))
          /\ \A k \in 1..Len(part) : HandleLetters(handle)[i + k - 1] = part[k]

\* the tokens of the repetition rule: each maximal run of letters of length 3
\* or more, lowercased, by the index where it starts
Tokens(s) ==
  LET starts == {i \in 1..Len(s) :
                   /\ s[i] \in AlphaSet
                   /\ i = 1 \/ s[i - 1] \notin AlphaSet}
      stop(i) == CHOOSE j \in i..Len(s) :
                   /\ \A k \in i..j : s[k] \in AlphaSet
                   /\ j = Len(s) \/ s[j + 1] \notin AlphaSet
      long == {i \in starts : i + 2 <= Len(s) /\ stop(i) >= i + 2}
  IN  [i \in long |-> [k \in 1..(stop(i) - i + 1) |-> lower_char(s[i + k - 1])]]

\* the first occurrences of the tokens that occur strictly more than 25 times
RepeatedFirsts(s) ==
  LET tokens == Tokens(s)
      count(i) == Cardinality({j \in DOMAIN tokens : tokens[j] = tokens[i]})
  IN  {i \in DOMAIN tokens :
         /\ \A j \in DOMAIN tokens : j < i => tokens[j] # tokens[i]
         /\ count(i) > 25}

\* no rule other than the two profile-presence rules has its condition met
NoOtherSignal ==
  LET G == StatedGraduationYear(text)
      E == extract_experience_years(text)
  IN  /\ RepeatedFirsts(text) = {}
      /\ ~(E # <<>> /\ E[1] > 40)
      /\ ~FutureGraduationCase(G, current_year)
      /\ ~ExperienceExceedsCase(G, E, current_year)

-----------------------------------------------------------------------------
(* Properties                                                              *)

\* C1: every report returned by check_fraud, on the short-circuit path and on
\* the full-analysis path, has an integer fraud_score with 0 <= score <= 100.
C1_ScoreInRange ==
  Returned => report.fraud_score \in 0..100

\* a full-analysis report in which both name-mismatch rules and the
\* repetition rule fired (the largest sum the rules reach)
C1_Witness ==
  /\ FullPath
  /\ HasReason("GitHub username '")
  /\ HasReason("LinkedIn username '")
  /\ HasReason("Words repeated excessively (>25 times): ")
  /\ report.fraud_score = 75

\* C2: in every report, fraud_status is "Suspicious" iff fraud_score >= 50 and
\* "Genuine" otherwise, on the short-circuit path and after override and cap.
C2_StatusIffThreshold ==
  Returned =>
    /\ report.fraud_status \in {"Genuine", "Suspicious"}
    /\ report.fraud_status = "Suspicious" <=> report.fraud_score >= 50

\* a full-analysis report whose score is exactly the threshold
C2_Witness ==
  /\ FullPath
  /\ report.fraud_score = 50
  /\ report.fraud_status = "Suspicious"
  /\ AdditiveSum = 50

\* C3: with fewer than 50 trimmed characters the report is exactly score 100,
\* Suspicious, the single empty-or-too-short reason and the first 300
\* characters of the untrimmed text, whatever else the text contains; with 50
\* or more trimmed characters that reason never appears.
C3_ShortCircuitExact ==
  /\ ShortPath =>
       /\ report.fraud_score = 100
       /\ report.fraud_status = "Suspicious"
       /\ report.reasons =
            <<<<"Resume content is empty or too short (< 50 characters)">>>>
       /\ Len(report.extracted_preview) = IF Len(text) < 300 THEN Len(text) ELSE 300
       /\ \A i \in 1..Len(report.extracted_preview) :
            report.extracted_preview[i] = text[i]
  /\ FullPath =>
       ~HasReason("Resume content is empty or too short (< 50 characters)")

\* a short text of more than 300 characters that claims 42 years of
\* experience and has no profile link
C3_Witness ==
  /\ ShortPath
  /\ Len(text) > 300
  /\ extract_experience_years(text) = <<42>>
  /\ GITHUB_PATTERN_search(text) = <<>>
  /\ Len(report.extracted_preview) = 300

\* the resume of the worked example: first capitalized line "John Smith",
\* github.com/johnsmith99, linkedin.com/in/johnsmith, the year 2020 and
\* "5 years of experience"
JohnSmithResume ==
  Name_JohnSmith \o GitHub_Match \o LinkedIn_Match \o Year_2020 \o Exp_5
    \o Body_Base

\* C4: on the full-analysis path, with graduation year G (the minimum 4-digit
\* year token in [1970, 2099]) and experience figure E both present and
\* current year Y: if Y - G >= 0 and E > Y - G the report carries +30 and one
\* reason naming E, G and Y - G; the John Smith resume evaluated in 2024 gets
\* fraud_score 30 and status Genuine.
C4_ExperienceExceedsTimeline ==
  FullPath =>
    LET G == StatedGraduationYear(text)
        E == extract_experience_years(text)
        Y == current_year
    IN  /\ ExperienceExceedsCase(G, E, Y) =>
             /\ Cardinality(ReasonsOf("Claimed ")) = 1
             /\ \E k \in 1..Len(report.reasons) :
                  report.reasons[k] =
                    <<"Claimed ", E[1], " years experience but graduated in ",
                      G[1], " (max possible: ", Y - G[1], " years)">>
             /\ ScoreFollowsReasons
        /\ (text = JohnSmithResume /\ Y = 2024) =>
             /\ report.fraud_score = 30
             /\ report.fraud_status = "Genuine"

\* C5: on the full-analysis path graduation_year is the minimum 4-digit token
\* beginning with 19 or 20 in [1970, 2099]; whenever it is greater than the
\* current year the report carries +20 and one reason naming the year, and the
\* experience-exceeds-max-possible rule does not fire in that report, so the
\* two timeline rules never both contribute.
C5_FutureGraduation ==
  FullPath =>
    LET G == StatedGraduationYear(text)
    IN  /\ extract_graduation_year(text) = G
        /\ FutureGraduationCase(G, current_year) =>
             /\ Cardinality(ReasonsOf("Graduation year (")) = 1
             /\ \E k \in 1..Len(report.reasons) :
                  report.reasons[k] =
                    <<"Graduation year (", G[1], ") is in the future">>
             /\ ~HasReason("Claimed ")
             /\ ScoreFollowsReasons
        /\ ~(HasReason("Graduation year (") /\ HasReason("Claimed "))

\* C6: the unrealistic-experience override is a floor: on the full-analysis
\* path, when the first experience phrase claims E > 40 the score is
\* min(100, max(S, 50)) for S the sum of the additive deltas, the status is
\* Suspicious and exactly one reason naming E is appended (last); with
\* S >= 50 the score is unchanged by the override; with E <= 40 or no
\* experience figure neither the floor nor the reason is applied.
C6_UnrealisticFloor ==
  FullPath =>
    LET E == extract_experience_years(text)
        S == AdditiveSum
        n == Len(report.reasons)
    IN  IF E # <<>> /\ E[1] > 40
        THEN /\ report.fraud_score = Min2(100, Max2(S, 50))
             /\ S >= 50 => report.fraud_score = Min2(100, S)
             /\ report.fraud_status = "Suspicious"
             /\ ReasonsOf("Unrealistic experience claimed: ") = {n}
             /\ report.reasons[n] =
                  <<"Unrealistic experience claimed: ", E[1], " years (>40)">>
        ELSE /\ ~HasReason("Unrealistic experience claimed: ")
             /\ report.fraud_score = Min2(100, S)

\* "42 years of experience" with additive rules totalling 0: score 50
C6_Witness ==
  /\ FullPath
  /\ extract_experience_years(text) = <<42>>
  /\ AdditiveSum = 0
  /\ report.fraud_score = 50
  /\ report.fraud_status = "Suspicious"

\* C7: the two profile-presence rules are independent and worth +25 each: on
\* the full-analysis path a missing GitHub link leaves the reason "Missing
\* GitHub profile URL", a missing LinkedIn link "Missing LinkedIn profile
\* URL", each whatever the other; with neither link and no other signal the
\* report is score 50, Suspicious, with exactly those two reasons.
C7_ProfilePresence ==
  FullPath =>
    LET no_github == GITHUB_PATTERN_search(text) = <<>>
        no_linkedin == LINKEDIN_PATTERN_search(text) = <<>>
    IN  /\ Cardinality(ReasonsOf("Missing GitHub profile URL"))
             = IF no_github THEN 1 ELSE 0
        /\ Cardinality(ReasonsOf("Missing LinkedIn profile URL"))
             = IF no_linkedin THEN 1 ELSE 0
        /\ \A k \in ReasonsOf("Missing GitHub profile URL")
                    \cup ReasonsOf("Missing LinkedIn profile URL") :
             Len(report.reasons[k]) = 1
        /\ ScoreFollowsReasons
        /\ (no_github /\ no_linkedin /\ NoOtherSignal) =>
             /\ report.fraud_score = 50
             /\ report.fraud_status = "Suspicious"
             /\ report.reasons = <<<<"Missing GitHub profile URL">>,
                                   <<"Missing LinkedIn profile URL">>>>

\* neither link, no other signal
C7_Witness ==
  /\ FullPath
  /\ GITHUB_PATTERN_search(text) = <<>>
  /\ LINKEDIN_PATTERN_search(text) = <<>>
  /\ NoOtherSignal
  /\ report.fraud_score = 50
  /\ Len(report.reasons) = 2

\* the name-mismatch rule of one profile: it fires iff a handle and a
\* non-empty name were found and no part of the name longer than 2 characters
\* is a substring of the normalized handle; it then leaves one reason naming
\* the handle and the name, and never together with the missing-link reason
MismatchRuleHolds(match, name, mismatch_lit, missing_lit) ==
  LET fires == /\ match # <<>>
               /\ name # <<>>
               /\ ~StatedNameMatch(name, match[1])
  IN  /\ Cardinality(ReasonsOf(mismatch_lit)) = IF fires THEN 1 ELSE 0
      /\ \A k \in ReasonsOf(mismatch_lit) :
           report.reasons[k] =
             <<mismatch_lit, match[1], "' does not match candidate name '",
               name, "'">>
      /\ ~(HasReason(mismatch_lit) /\ HasReason(missing_lit))

\* C8: for GitHub and LinkedIn separately the name-mismatch rule (+30, one
\* reason naming handle and name) fires iff a handle was found, a non-empty
\* name was found and no whitespace-separated part of the lowercased name
\* longer than 2 characters is a substring of the handle lowercased with all
\* non-alphabetic characters removed; with the handle or the name missing it
\* does not fire, so +25 and +30 are never both applied for one profile.
C8_NameMismatch ==
  FullPath =>
    /\ MismatchRuleHolds(GITHUB_PATTERN_search(text), extract_name(text),
                         "GitHub username '", "Missing GitHub profile URL")
    /\ MismatchRuleHolds(LINKEDIN_PATTERN_search(text), extract_name(text),
                         "LinkedIn username '", "Missing LinkedIn profile URL")
    /\ ScoreFollowsReasons

\* the name "Li Wu" against the handle "li-w": "li" is a substring of the
\* handle but has only 2 characters, so the rule fires
C8_Witness ==
  /\ FullPath
  /\ extract_name(text) = <<"L", "i", " ", "W", "u">>
  /\ LINKEDIN_PATTERN_search(text) = <<<<"l", "i", "-", "w">>>>
  /\ HasReason("LinkedIn username '")
  /\ ~HasReason("Missing LinkedIn profile URL")

\* C9: the repetition rule counts lowercase tokens that are runs of 3 or more
\* letters and fires iff some token occurs strictly more than 25 times (25
\* occurrences do not trigger it, 26 do); it adds a flat 15 once and leaves a
\* single reason listing at most the first 5 repeated tokens in order of first
\* occurrence in the text.
C9_Repetition ==
  FullPath =>
    LET tokens == Tokens(text)
        firsts == SetToSeq(RepeatedFirsts(text))
        listed == [k \in 1..Min2(5, Len(firsts)) |-> tokens[firsts[k]]]
    IN  /\ Cardinality(ReasonsOf("Words repeated excessively (>25 times): "))
             = IF firsts # <<>> THEN 1 ELSE 0
        /\ \A k \in ReasonsOf("Words repeated excessively (>25 times): ") :
             report.reasons[k] =
               <<"Words repeated excessively (>25 times): ",
                 join(<<",", " ">>, listed)>>
        /\ ScoreFollowsReasons

\* seven tokens occur more than 25 times; the reason lists the first five in
\* order of first occurrence, which is neither alphabetical nor by count
C9_Witness ==
  /\ FullPath
  /\ Cardinality(RepeatedFirsts(text)) = 7
  /\ \E k \in 1..Len(report.reasons) :
       report.reasons[k] =
         <<"Words repeated excessively (>25 times): ",
           <<"z","e","t","a",",", " ","e","g","g","s",",", " ",
             "b","a","c","o","n",",", " ","b","e","a","n","s",",", " ",
             "t","o","a","s","t">>>>

\* the extension of the uploaded file name, lowercased, is .pdf or .docx
SupportedType(file_name) ==
  LET dots == {i \in 1..Len(file_name) : file_name[i] = "."}
      last == CHOOSE i \in dots : \A j \in dots : j <= i
  IN  /\ dots # {}
      /\ \E k \in 1..(last - 1) : file_name[k] \notin {".", "/"}
      /\ \A k \in last..Len(file_name) : file_name[k] # "/"
      /\ [k \in 1..(Len(file_name) - last + 1) |->
            lower_char(file_name[last + k - 1])]
           \in {<<".", "p", "d", "f">>, <<".", "d", "o", "c", "x">>}

\* the last request is one of the failures: unsupported type, the file could
\* not be saved, or its text could not be extracted
UploadFailed ==
  \/ ~SupportedType(request.filename)
  \/ ~request.save_ok
  \/ ~request.doc.readable

\* the response to the last request, given the request
ResponseMatchesRequest ==
  /\ response.status_code \in {200, 400, 500}
  /\ ~SupportedType(request.filename) => response.status_code = 400
  /\ (SupportedType(request.filename) /\ UploadFailed) =>
       response.status_code = 500
  /\ response.status_code = 200 =>
       /\ ~UploadFailed
       /\ db # <<>>
       /\ LET row == db[Len(db)]
          IN  /\ row.filename = request.filename
              /\ row.user_id = request.user_id
              /\ row.fraud_score = response.body.fraud_score
              /\ row.fraud_status = response.body.fraud_status
              /\ row.reasons = [json |-> response.body.reasons]
              /\ response.body.fraud_score \in 0..100
              /\ response.body.fraud_status \in {"Genuine", "Suspicious"}

RuleOf(reason) ==
  CASE reason[1] = "Missing GitHub profile URL" -> 1
    [] reason[1] = "Missing LinkedIn profile URL" -> 2
    [] reason[1] = "GitHub username '" -> 3
    [] reason[1] = "LinkedIn username '" -> 4
    [] reason[1] = "Graduation year (" -> 5
    [] reason[1] = "Claimed " -> 6
    [] reason[1] = "Words repeated excessively (>25 times): " -> 7
    [] reason[1] = "Unrealistic experience claimed: " -> 8
    [] OTHER -> 0

\* the rules whose condition is met by the text, by position in the rule
\* order; the graduation year and the experience are the values recovered
\* by the extraction helpers
FiredRules ==
  LET gh == GITHUB_PATTERN_search(text)
      li == LINKEDIN_PATTERN_search(text)
      name == extract_name(text)
      G == extract_graduation_year(text)
      E == extract_experience_years(text)
  IN  {r \in 1..8 :
         \/ r = 1 /\ gh = <<>>
         \/ r = 2 /\ li = <<>>
         \/ r = 3 /\ gh # <<>> /\ name # <<>> /\ ~StatedNameMatch(name, gh[1])
         \/ r = 4 /\ li # <<>> /\ name # <<>> /\ ~StatedNameMatch(name, li[1])
         \/ r = 5 /\ Truthy(G) /\ G[1] > current_year
         \/ r = 6 /\ Truthy(G) /\ Truthy(E) /\ current_year - G[1] >= 0
                  /\ E[1] > current_year - G[1]
         \/ r = 7 /\ RepeatedFirsts(text) # {}
         \/ r = 8 /\ Truthy(E) /\ E[1] > 40}

\* C11: in every report of the full-analysis path each rule that fired
\* contributes exactly one reason and the reasons stand in the fixed rule
\* order (missing GitHub, missing LinkedIn, GitHub name mismatch, LinkedIn
\* name mismatch, future graduation, experience exceeds max possible,
\* repeated words, unrealistic experience): no reason of a later rule
\* precedes a reason of an earlier rule, and the list is empty exactly when
\* no rule fired.
C11_ReasonOrder ==
  FullPath =>
    /\ \A k \in 1..Len(report.reasons) : RuleOf(report.reasons[k]) \in 1..8
    /\ {RuleOf(report.reasons[k]) : k \in 1..Len(report.reasons)} = FiredRules
    /\ Len(report.reasons) = Cardinality(FiredRules)
    /\ \A j, k \in 1..Len(report.reasons) :
         j < k => RuleOf(report.reasons[j]) < RuleOf(report.reasons[k])
    /\ (report.reasons = <<>>) <=> (FiredRules = {})
    /\ (report.reasons = <<>>) <=> (report.fraud_score = 0)

\* a report with four reasons of non-adjacent rules: missing GitHub, LinkedIn
\* name mismatch, repeated words, unrealistic experience
C11_Witness ==
  /\ FullPath
  /\ Len(report.reasons) = 4
  /\ RuleOf(report.reasons[1]) = 1
  /\ RuleOf(report.reasons[2]) = 4
  /\ RuleOf(report.reasons[3]) = 7
  /\ RuleOf(report.reasons[4]) = 8

\* a full-analysis report whose reasons list is empty
C11_WitnessEmpty ==
  FullPath /\ report.reasons = <<>> /\ report.fraud_score = 0

\* a capitalized word (an upper-case letter, then lower-case letters) stands
\* at the beginning of a line at i
NameLineAt(s, i) ==
  /\ i = 1 \/ s[i - 1] = "\n"
  /\ i + 1 <= Len(s)
  /\ s[i] \in UpperSet
  /\ s[i + 1] \in LowerSet

\* where the run of up to n further capitalized words ends when the words
\* are separated by whitespace of the same line only
RECURSIVE OneLineNameEnd(_, _, _)
OneLineNameEnd(s, i, n) ==
  LET e == RunEnd(s, i + 1, LowerSet)
      w == SkipRun(s, e + 1, SpaceSet \ {"\n"})
  IN  IF n > 0 /\ w > e + 1 /\ w + 1 <= Len(s)
         /\ s[w] \in UpperSet /\ s[w + 1] \in LowerSet
      THEN OneLineNameEnd(s, w, n - 1)
      ELSE e

\* the 1 to 4 consecutive capitalized words at the beginning of the first
\* line that begins with a capitalized word; empty when there is no such line
OneLineName(s) ==
  LET lines == {i \in 1..Len(s) : NameLineAt(s, i)}
  IN  IF lines = {} THEN <<>>
      ELSE LET i == Min(lines) IN SubSeq(s, i, OneLineNameEnd(s, i, 3))

\* C12: the recovered candidate_name is the captured group of the first line
\* of the text that begins with a capitalized word: 1 to 4 consecutive
\* capitalized words all taken from that single line, empty when no line
\* begins with a capitalized word; words of a following line are never part
\* of the name, so the handle comparison of the mismatch rules uses the parts
\* of the one-line name only.
C12_NameFromOneLine ==
  Returned =>
    LET candidate_name == extract_name(text)
    IN  /\ \A k \in 1..Len(candidate_name) : candidate_name[k] # "\n"
        /\ candidate_name = OneLineName(text)
        /\ (candidate_name = <<>>) <=>
             ~\E i \in 1..Len(text) : NameLineAt(text, i)
        /\ candidate_name # <<>> =>
             Cardinality({a \in 1..Len(candidate_name) :
                            /\ candidate_name[a] \notin SpaceSet
                            /\ a = 1 \/ candidate_name[a - 1] \in SpaceSet})
               \in 1..4
        /\ FullPath =>
             /\ MismatchRuleHolds(GITHUB_PATTERN_search(text), OneLineName(text),
                                  "GitHub username '",
                                  "Missing GitHub profile URL")
             /\ MismatchRuleHolds(LINKEDIN_PATTERN_search(text), OneLineName(text),
                                  "LinkedIn username '",
                                  "Missing LinkedIn profile URL")

====
